---- MODULE Spec2Model ----
(***************************************************************************)
(* Medical ML Service Registry: the in-memory ServiceStore                 *)
(* (registry/backend/storage/service_store.py), the HTTP routes over it    *)
(* (registry/backend/routes/services.py, registry/backend/main.py) and the *)
(* ServiceMetadata schema (shared/medical_ml_sdk/core/schemas.py).         *)
(*                                                                         *)
(* Time is the wall clock read by datetime.now(), in seconds.  The clock   *)
(* moves in steps of Tick seconds, so that a heartbeat age can be below,   *)
(* equal to and above SERVICE_TIMEOUT_SECONDS.  List results are modelled  *)
(* as sets of records (no claim depends on their order).  The handlers     *)
(* below are coroutines without an await, so each runs to completion on    *)
(* the event loop: one action per request.                                 *)
(***************************************************************************)
EXTENDS Integers, Sequences, FiniteSets, TLC

VARIABLES store, now, last, lastAddRemove, seenStale, beat,
          tasks, running, serial, agg, inst, clientCall, loader

vars == <<store, now, last, lastAddRemove, seenStale, beat, tasks, running, serial, agg,
          inst, clientCall, loader>>

\* the variables of the request-by-request view
reqVars == <<last, lastAddRemove, seenStale, beat>>

\* the variables of the statement-by-statement views
stmtVars == <<tasks, running, serial, agg>>

\* the variables of the prediction services: their lifespans, their calls of
\* the registry and their model loader
sdkVars == <<inst, clientCall, loader>>

(***************************************************************************)
(* Bounds                                                                  *)
(***************************************************************************)
\* the clock stops after MaxTicks steps of Tick seconds
MaxTicks == 2

(***************************************************************************)
(* Program constants                                                       *)
(***************************************************************************)
SERVICE_TIMEOUT_SECONDS == 60

\* one step of the clock
Tick == SERVICE_TIMEOUT_SECONDS
MaxClock == MaxTicks * Tick
Times == {k * Tick : k \in 0..MaxTicks}

\* the service ids the callers use
ServiceIds == {"cardiovascular_disease", "alzheimers"}

\* Python None (Optional fields, dict.get on a missing key)
None == "None"

(***************************************************************************)
(* datetime                                                                *)
(***************************************************************************)
\* datetime.isoformat(): the timestamp as a string
isoformat(t) == "T+" \o ToString(t)

\* the instant a timestamp string denotes (datetime.fromisoformat)
fromisoformat(s) == CHOOSE t \in Times : isoformat(t) = s

(***************************************************************************)
(* dict                                                                    *)
(***************************************************************************)
EmptyDict == [k \in {} |-> None]

\* d[k] = v
DictSet(d, k, v) == [x \in (DOMAIN d) \cup {k} |-> IF x = k THEN v ELSE d[x]]

\* d.pop(k, None)
DictPop(d, k) == [x \in (DOMAIN d) \ {k} |-> d[x]]

\* list(d.values())
DictValues(d) == {d[k] : k \in DOMAIN d}

(***************************************************************************)
(* ServiceMetadata                                                         *)
(***************************************************************************)
RequiredFields == {"service_id", "service_name", "version", "base_url", "port",
                   "endpoints", "input_schema", "output_schema"}
OptionalFields == {"description", "tags", "capabilities", "registered_at",
                   "last_heartbeat"}
MetadataFields == RequiredFields \cup OptionalFields

\* the Field(default=...) / default_factory of each optional field;
\* t is the clock when the model is constructed
FieldDefault(f, t) ==
    CASE f = "description"    -> ""
      [] f = "tags"           -> <<>>
      [] f = "capabilities"   -> None
      [] f = "registered_at"  -> isoformat(t)
      [] f = "last_heartbeat" -> None

\* pydantic accepts a body that carries every required field
IsValidBody(body) == RequiredFields \subseteq DOMAIN body

\* ServiceMetadata(**body)
ServiceMetadata(body, t) ==
    [f \in MetadataFields |-> IF f \in DOMAIN body THEN body[f] ELSE FieldDefault(f, t)]

(***************************************************************************)
(* Request bodies the callers submit                                       *)
(***************************************************************************)
\* a raw HTTP caller that leaves every optional field out
BodyMinimal(id) ==
    [service_id |-> id, service_name |-> "Prediction API", version |-> "1.0.0",
     base_url |-> "http://localhost:8000", port |-> 8000,
     endpoints |-> [health |-> "/health", predict |-> "/api/v1/predict"],
     input_schema |-> "{in}", output_schema |-> "{out}",
     tags |-> <<"cardio", "classification">>]

\* the SDK client: model_dump() of a ServiceMetadata built by the service,
\* registered_at set on the service's side, last_heartbeat None
BodyClient(id) ==
    [service_id |-> id, service_name |-> "Prediction API", version |-> "1.0.0",
     description |-> "Predicts disease risk",
     base_url |-> "http://localhost:8000", port |-> 8000,
     endpoints |-> [health |-> "/health", predict |-> "/api/v1/predict"],
     input_schema |-> "{in}", output_schema |-> "{out}",
     tags |-> <<"Cardio", "cardio", "cardio">>,
     capabilities |-> "{metrics}",
     registered_at |-> isoformat(0), last_heartbeat |-> None]

\* a new version of the service that also submits a last_heartbeat of its own
BodyUpgrade(id) ==
    [service_id |-> id, service_name |-> "Prediction API v2", version |-> "2.0.0",
     base_url |-> "http://localhost:8001", port |-> 8001,
     endpoints |-> [predict |-> "/api/v2/predict"],
     input_schema |-> "{in2}", output_schema |-> "{out2}",
     tags |-> <<>>,
     last_heartbeat |-> isoformat(0)]

\* a body without the required service_name
BodyInvalid(id) ==
    [service_id |-> id, version |-> "1.0.0"]

Bodies == UNION {{BodyMinimal(id), BodyClient(id), BodyUpgrade(id), BodyInvalid(id)} :
                 id \in ServiceIds}

(***************************************************************************)
(* str: a string is a sequence of pieces, each a single "," or " " or a    *)
(* run of characters free of commas and whitespace                         *)
(***************************************************************************)
RECURSIVE split(_)
\* s.split(",")
split(s) ==
    IF \A i \in 1..Len(s) : s[i] # ","
    THEN <<s>>
    ELSE LET i == CHOOSE k \in 1..Len(s) : s[k] = "," /\ \A m \in 1..(k - 1) : s[m] # ","
         IN  <<SubSeq(s, 1, i - 1)>> \o split(SubSeq(s, i + 1, Len(s)))

\* faulty strip: leaves the whitespace in place
strip_nothing(s) == s

RECURSIVE strip(_)
\* s.strip()
strip(s) ==
    IF s = <<>> THEN s
    ELSE IF s[1] = " " THEN strip(Tail(s))
    ELSE IF s[Len(s)] = " " THEN strip(SubSeq(s, 1, Len(s) - 1))
    ELSE s

RECURSIVE join(_)
\* the pieces as one Python str
join(s) == IF s = <<>> THEN "" ELSE s[1] \o join(Tail(s))

\* the tags query parameter: omitted, or one of these strings
Queries ==
    {[given |-> FALSE, value |-> <<>>],
     [given |-> TRUE,  value |-> <<>>],
     [given |-> TRUE,  value |-> <<"cardio">>],
     [given |-> TRUE,  value |-> <<" ", "cardio", " ", ",", "zzz">>],
     [given |-> TRUE,  value |-> <<"Cardio", ",", "classification">>],
     [given |-> TRUE,  value |-> <<"zzz", ",">>]}

(***************************************************************************)
(* ServiceStore                                                            *)
(***************************************************************************)
\* ServiceStore.__init__
NewStore == [services |-> EmptyDict, heartbeats |-> EmptyDict]

\* faulty add_service: keeps the registered_at of a record it replaces
add_service_keeps_registered_at(S, metadata, t) ==
    [services   |-> DictSet(S.services, metadata.service_id,
                       IF metadata.service_id \in DOMAIN S.services
                       THEN [metadata EXCEPT !.registered_at =
                                S.services[metadata.service_id].registered_at]
                       ELSE metadata),
     heartbeats |-> DictSet(S.heartbeats, metadata.service_id, t)]

\* faulty add_service: the heartbeat map is not stamped
add_service_without_heartbeat(S, metadata, t) ==
    [services   |-> DictSet(S.services, metadata.service_id, metadata),
     heartbeats |-> S.heartbeats]

\* add_service(metadata); t is the value of datetime.now()
add_service(S, metadata, t) ==
    [services   |-> DictSet(S.services, metadata.service_id, metadata),
     heartbeats |-> DictSet(S.heartbeats, metadata.service_id, t)]

\* the None of an Optional[ServiceMetadata]
NoService == [service_id |-> None]

\* get_service(service_id): dict.get
get_service(S, service_id) ==
    IF service_id \in DOMAIN S.services THEN S.services[service_id] ELSE NoService

\* get_all_services()
get_all_services(S) == DictValues(S.services)

\* faulty remove_service: deletes the heartbeat entry but leaves the record
remove_service_keeps_record(S, service_id) ==
    IF service_id \in DOMAIN S.services
    THEN [store |-> [services   |-> S.services,
                     heartbeats |-> DictPop(S.heartbeats, service_id)],
          ret   |-> TRUE]
    ELSE [store |-> S, ret |-> FALSE]

\* faulty remove_service: deletes the record but leaves the heartbeat entry
remove_service_keeps_heartbeat(S, service_id) ==
    IF service_id \in DOMAIN S.services
    THEN [store |-> [services   |-> DictPop(S.services, service_id),
                     heartbeats |-> S.heartbeats],
          ret   |-> TRUE]
    ELSE [store |-> S, ret |-> FALSE]

\* faulty remove_service: reports success for an id that is not registered
remove_service_reports_found(S, service_id) ==
    IF service_id \in DOMAIN S.services
    THEN [store |-> [services   |-> DictPop(S.services, service_id),
                     heartbeats |-> DictPop(S.heartbeats, service_id)],
          ret   |-> TRUE]
    ELSE [store |-> S, ret |-> TRUE]

\* remove_service(service_id): the store afterwards and the value returned
remove_service(S, service_id) ==
    IF service_id \in DOMAIN S.services
    THEN [store |-> [services   |-> DictPop(S.services, service_id),
                     heartbeats |-> DictPop(S.heartbeats, service_id)],
          ret   |-> TRUE]
    ELSE [store |-> S, ret |-> FALSE]

\* faulty update_heartbeat: writes the heartbeat map before testing the id
update_heartbeat_unconditional(S, service_id, t1, t2) ==
    IF service_id \in DOMAIN S.services
    THEN [store |-> [services   |-> DictSet(S.services, service_id,
                                       [S.services[service_id] EXCEPT
                                           !.last_heartbeat = isoformat(t2)]),
                     heartbeats |-> DictSet(S.heartbeats, service_id, t1)],
          ret   |-> TRUE]
    ELSE [store |-> [services   |-> S.services,
                     heartbeats |-> DictSet(S.heartbeats, service_id, t1)],
          ret   |-> FALSE]

\* faulty update_heartbeat: also stamps registered_at
update_heartbeat_restamps(S, service_id, t1, t2) ==
    IF service_id \in DOMAIN S.services
    THEN [store |-> [services   |-> DictSet(S.services, service_id,
                                       [S.services[service_id] EXCEPT
                                           !.last_heartbeat = isoformat(t2),
                                           !.registered_at = isoformat(t2)]),
                     heartbeats |-> DictSet(S.heartbeats, service_id, t1)],
          ret   |-> TRUE]
    ELSE [store |-> S, ret |-> FALSE]

\* faulty update_heartbeat: updates the record's field but not the heartbeat map
update_heartbeat_field_only(S, service_id, t1, t2) ==
    IF service_id \in DOMAIN S.services
    THEN [store |-> [services   |-> DictSet(S.services, service_id,
                                       [S.services[service_id] EXCEPT
                                           !.last_heartbeat = isoformat(t2)]),
                     heartbeats |-> S.heartbeats],
          ret   |-> TRUE]
    ELSE [store |-> S, ret |-> FALSE]

\* faulty update_heartbeat: every heartbeat entry is stamped
update_heartbeat_stamps_all(S, service_id, t1, t2) ==
    IF service_id \in DOMAIN S.services
    THEN [store |-> [services   |-> DictSet(S.services, service_id,
                                       [S.services[service_id] EXCEPT
                                           !.last_heartbeat = isoformat(t2)]),
                     heartbeats |-> [id \in DOMAIN S.heartbeats |-> t1]],
          ret   |-> TRUE]
    ELSE [store |-> S, ret |-> FALSE]

\* update_heartbeat(service_id): t1 and t2 are its two reads of datetime.now()
update_heartbeat(S, service_id, t1, t2) ==
    IF service_id \in DOMAIN S.services
    THEN [store |-> [services   |-> DictSet(S.services, service_id,
                                       [S.services[service_id] EXCEPT
                                           !.last_heartbeat = isoformat(t2)]),
                     heartbeats |-> DictSet(S.heartbeats, service_id, t1)],
          ret   |-> TRUE]
    ELSE [store |-> S, ret |-> FALSE]

\* faulty selection: a heartbeat exactly at the cutoff still counts
healthy_ids_inclusive(S, timeout_seconds, t) ==
    {sid \in DOMAIN S.heartbeats : S.heartbeats[sid] >= t - timeout_seconds}

\* the ids get_healthy_services selects: heartbeat newer than the cutoff
healthy_ids(S, timeout_seconds, t) ==
    {sid \in DOMAIN S.heartbeats : S.heartbeats[sid] > t - timeout_seconds}

\* self._services[sid] in get_healthy_services raises KeyError when a
\* selected heartbeat has no record
healthy_raises(S, timeout_seconds, t) ==
    ~(healthy_ids(S, timeout_seconds, t) \subseteq DOMAIN S.services)

\* get_healthy_services(timeout_seconds): t is the value of datetime.now()
get_healthy_services(S, timeout_seconds, t) ==
    {S.services[sid] : sid \in healthy_ids(S, timeout_seconds, t)}

\* faulty search_by_tags: a service must carry every supplied tag
search_by_tags_all(S, tags) ==
    IF tags = <<>>
    THEN get_all_services(S)
    ELSE {svc \in DictValues(S.services) :
             \A i \in 1..Len(tags) : \E j \in 1..Len(svc.tags) : svc.tags[j] = tags[i]}

\* search_by_tags(tags): tags is a list of strings
search_by_tags(S, tags) ==
    IF tags = <<>>
    THEN get_all_services(S)
    ELSE {svc \in DictValues(S.services) :
             \E i \in 1..Len(tags) : \E j \in 1..Len(svc.tags) : svc.tags[j] = tags[i]}

\* get_service_count()
get_service_count(S) == Cardinality(DOMAIN S.services)

\* service_exists(service_id)
service_exists(S, service_id) == service_id \in DOMAIN S.services

(***************************************************************************)
(* State                                                                   *)
(***************************************************************************)
\* last: the request handled last: operation, service id, HTTP status,
\*       response body, request body, clock when the handler started, and
\*       what the store call inside the handler returned
\* lastAddRemove: per id, the most recent of add_service / remove_service
\* seenStale: ids that a health check found registered with a heartbeat
\*            older than the timeout, since they were last registered
\* beat: per registered id, the clock at the start and at the end of the
\*       handler of its most recent registration or acknowledged heartbeat

Response(op, id, status, ret, arg, start, obs) ==
    [op |-> op, id |-> id, status |-> status, ret |-> ret, arg |-> arg,
     start |-> start, obs |-> obs]

\* tasks: per caller, the request it has in flight, executed statement by
\*        statement: the handler (op), the next statement (pc), the validated
\*        body, the two clock reads of update_heartbeat, the response, and
\*        whether the task holds a lock on the store
\* running: the task whose handler the event loop is executing, or "idle"
\* serial: the store obtained by running the completed handlers one after
\*         another, in the order they returned
\* agg: the aggregate_health request in flight: next statement (pc), the list
\*      all_services it iterates (each element with a flag telling whether it
\*      is still the object held by the store), the services not yet
\*      iterated (todo), the service whose probe is awaited, the probe
\*      answered last, the response under construction and the HTTP status

\* the callers that send requests at the same time
Callers == {"caller_a", "caller_b"}

IdleTask ==
    [op |-> "none", pc |-> "idle", metadata |-> NoService, t1 |-> 0, t2 |-> 0,
     status |-> 0, timestamp |-> None, expect |-> 0, lock |-> FALSE]

IdleAggregate ==
    [pc |-> "idle", all_services |-> EmptyDict, todo |-> {}, service |-> None,
     probe |-> [service_id |-> None], health_status |-> EmptyDict,
     status_code |-> 0]

\* inst: per prediction service instance, where its lifespan stands (pc),
\*       whether it created a RegistryClient, and what register_service
\*       returned to it
\* clientCall: the call of a RegistryClient method made last: the method, what
\*       the HTTP request ran into, the status of the response, whether the
\*       registry handled the request, the number of requests sent and what
\*       the method returned
\* loader: the model loader of a prediction service: its attributes, the
\*         files it was given, what load_latest_model returned, and the
\*         response of the request served last

\* two instances of the same prediction service, as during a restart
Instances == {"instance_old", "instance_new"}

StoppedInstance == [pc |-> "stopped", registry_client |-> FALSE, registered |-> "None"]

NoCall ==
    [method |-> "none", by |-> None, error |-> "none", status_code |-> 0,
     handled |-> FALSE, requests |-> 0, returned |-> "None"]

\* the files no load has looked at yet
NoFiles ==
    [info |-> "unread", keys |-> {}, model_file |-> "unread",
     scaler_file |-> "unread", metadata_file |-> "unread"]

\* BaseModelLoader.__init__
NewLoader ==
    [model |-> None, scaler |-> None, metadata |-> None, feature_names |-> None,
     files |-> NoFiles, returned |-> "None", request |-> "none", status_code |-> 0,
     status |-> None]

Init ==
    /\ store = NewStore
    /\ now = 0
    /\ last = Response("start", None, 0, None, None, 0, None)
    /\ lastAddRemove = [id \in ServiceIds |-> "none"]
    /\ seenStale = {}
    /\ beat = [id \in ServiceIds |-> [start |-> 0, end |-> 0]]
    /\ tasks = [c \in Callers |-> IdleTask]
    /\ running = "idle"
    /\ serial = NewStore
    /\ agg = IdleAggregate
    /\ inst = [i \in Instances |-> StoppedInstance]
    /\ clientCall = NoCall
    /\ loader = NewLoader

\* the clock advances between requests
TickClock ==
    /\ UNCHANGED <<stmtVars, sdkVars>>
    /\ now < MaxClock
    /\ now' = now + Tick
    /\ last' = Response("tick", None, 0, None, None, now, None)
    /\ UNCHANGED <<store, lastAddRemove, seenStale, beat>>

(***************************************************************************)
(* Routes                                                                  *)
(***************************************************************************)
\* POST /services/register with a body that fails validation: 422, the
\* handler is not entered
register_service_invalid ==
    /\ UNCHANGED <<stmtVars, sdkVars>>
    /\ \E body \in Bodies :
           /\ ~IsValidBody(body)
           /\ last' = Response("register", body.service_id, 422, None, body, now, None)
           /\ UNCHANGED <<store, now, lastAddRemove, seenStale, beat>>

\* POST /services/register: the body is validated into a ServiceMetadata
\* (defaults filled at the clock then), add_service reads the clock again
register_service ==
    /\ UNCHANGED <<stmtVars, sdkVars>>
    /\ \E body \in Bodies, d \in 0..1 :
           /\ IsValidBody(body)
           /\ now + d * Tick <= MaxClock
           /\ LET metadata == ServiceMetadata(body, now)
              IN  /\ store' = add_service(store, metadata, now + d * Tick)
                  /\ last' = Response("register", metadata.service_id, 201,
                                      [status |-> "registered",
                                       service_id |-> metadata.service_id],
                                      body, now, None)
                  /\ lastAddRemove' = [lastAddRemove EXCEPT ![metadata.service_id] = "add"]
                  /\ seenStale' = seenStale \ {metadata.service_id}
                  /\ beat' = [beat EXCEPT ![metadata.service_id] =
                                          [start |-> now, end |-> now + d * Tick]]
           /\ now' = now + d * Tick

\* DELETE /services/{service_id}
unregister_service ==
    /\ UNCHANGED <<stmtVars, sdkVars>>
    /\ \E service_id \in ServiceIds :
           LET r == remove_service(store, service_id)
           IN  /\ store' = r.store
               /\ last' = IF r.ret
                          THEN Response("unregister", service_id, 200,
                                        [status |-> "unregistered", service_id |-> service_id],
                                        None, now, r.ret)
                          ELSE Response("unregister", service_id, 404, None, None, now, r.ret)
               /\ lastAddRemove' = [lastAddRemove EXCEPT ![service_id] = "remove"]
               /\ seenStale' = seenStale \ {service_id}
               /\ beat' = IF r.ret
                          THEN [beat EXCEPT ![service_id] = [start |-> 0, end |-> 0]]
                          ELSE beat
               /\ UNCHANGED now

\* GET /services
list_services ==
    /\ UNCHANGED <<stmtVars, sdkVars>>
    /\ last' = Response("list", None, 200, get_all_services(store), None, now, None)
    /\ UNCHANGED <<store, now, lastAddRemove, seenStale, beat>>

\* GET /services/{service_id}
get_service_route ==
    /\ UNCHANGED <<stmtVars, sdkVars>>
    /\ \E service_id \in ServiceIds :
           LET service == get_service(store, service_id)
           IN  /\ last' = IF service # NoService
                          THEN Response("get", service_id, 200, service, None, now, service)
                          ELSE Response("get", service_id, 404, None, None, now, service)
               /\ UNCHANGED <<store, now, lastAddRemove, seenStale, beat>>

\* POST /services/{service_id}/heartbeat: update_heartbeat reads the clock
\* twice, then the handler reads the record back
service_heartbeat ==
    /\ UNCHANGED <<stmtVars, sdkVars>>
    /\ \E service_id \in ServiceIds, d \in 0..1 :
           /\ now + d * Tick <= MaxClock
           /\ LET r == update_heartbeat(store, service_id, now, now + d * Tick)
              IN  /\ r.ret \/ d = 0
                  /\ store' = r.store
                  /\ last' = IF r.ret
                             THEN Response("heartbeat", service_id, 200,
                                           [status |-> "acknowledged",
                                            service_id |-> service_id,
                                            timestamp |-> get_service(r.store, service_id).last_heartbeat],
                                           None, now, r.ret)
                             ELSE Response("heartbeat", service_id, 404, None, None, now, r.ret)
                  /\ beat' = IF r.ret
                             THEN [beat EXCEPT ![service_id] =
                                             [start |-> now, end |-> now + d * Tick]]
                             ELSE beat
           /\ now' = now + d * Tick
           /\ UNCHANGED <<lastAddRemove, seenStale>>

\* GET /services/search/by-tags
search_services ==
    /\ UNCHANGED <<stmtVars, sdkVars>>
    /\ \E tags \in Queries :
           /\ last' = IF tags.given /\ tags.value # <<>>
                      THEN LET parts == split(tags.value)
                               tag_list == [i \in 1..Len(parts) |-> join(strip(parts[i]))]
                           IN  Response("search", None, 200, search_by_tags(store, tag_list),
                                        tags, now, tag_list)
                      ELSE Response("search", None, 200, get_all_services(store),
                                    tags, now, <<>>)
           /\ UNCHANGED <<store, now, lastAddRemove, seenStale, beat>>

\* faulty GET /health: evicts the services it finds stale
health_evicts_stale ==
    /\ UNCHANGED <<stmtVars, sdkVars>>
    /\ last' = Response("health", None, 200,
                        [status |-> "healthy",
                         registered_services |-> get_service_count(store),
                         healthy_services |->
                             Cardinality(healthy_ids(store, SERVICE_TIMEOUT_SECONDS, now))],
                        None, now,
                        {store.services[sid] :
                            sid \in healthy_ids(store, SERVICE_TIMEOUT_SECONDS, now)
                                     \cap DOMAIN store.services})
    /\ store' = [services   |-> [sid \in healthy_ids(store, SERVICE_TIMEOUT_SECONDS, now)
                                          \cap DOMAIN store.services |-> store.services[sid]],
                 heartbeats |-> [sid \in healthy_ids(store, SERVICE_TIMEOUT_SECONDS, now)
                                     |-> store.heartbeats[sid]]]
    /\ seenStale' = seenStale \cup
                    {id \in DOMAIN store.services :
                        now - beat[id].end > SERVICE_TIMEOUT_SECONDS}
    /\ UNCHANGED <<now, lastAddRemove, beat>>

\* faulty GET /health: counts every registered service as healthy
health_counts_all ==
    /\ UNCHANGED <<stmtVars, sdkVars>>
    /\ last' = Response("health", None, 200,
                        [status |-> "healthy",
                         registered_services |-> get_service_count(store),
                         healthy_services |-> get_service_count(store)],
                        None, now,
                        get_healthy_services(store, SERVICE_TIMEOUT_SECONDS, now))
    /\ seenStale' = seenStale \cup
                    {id \in DOMAIN store.services :
                        now - beat[id].end > SERVICE_TIMEOUT_SECONDS}
    /\ UNCHANGED <<store, now, lastAddRemove, beat>>

\* GET /health
health ==
    /\ UNCHANGED <<stmtVars, sdkVars>>
    /\ last' = IF healthy_raises(store, SERVICE_TIMEOUT_SECONDS, now)
               THEN Response("health", None, 500, None, None, now, None)
               ELSE Response("health", None, 200,
                             [status |-> "healthy",
                              registered_services |-> get_service_count(store),
                              healthy_services |->
                                  Cardinality(get_healthy_services(store, SERVICE_TIMEOUT_SECONDS, now))],
                             None, now,
                             get_healthy_services(store, SERVICE_TIMEOUT_SECONDS, now))
    /\ seenStale' = seenStale \cup
                    {id \in DOMAIN store.services :
                        now - beat[id].end > SERVICE_TIMEOUT_SECONDS}
    /\ UNCHANGED <<store, now, lastAddRemove, beat>>

Next ==
    \/ TickClock
    \/ register_service_invalid
    \/ register_service
    \/ unregister_service
    \/ list_services
    \/ get_service_route
    \/ service_heartbeat
    \/ search_services
    \/ health

Spec == Init /\ [][Next]_vars

TypeOK ==
    /\ now \in Times
    /\ DOMAIN store.services \subseteq ServiceIds
    /\ DOMAIN store.heartbeats \subseteq ServiceIds

(***************************************************************************)
(* Properties                                                              *)
(***************************************************************************)
Registered == DOMAIN store.services

\* the fields of a request body other than the server-maintained last_heartbeat
SubmittedFields(body) == (DOMAIN body) \ {"last_heartbeat"}

\* timeouts get_healthy_services is evaluated with
Timeouts == {0, SERVICE_TIMEOUT_SECONDS, 2 * SERVICE_TIMEOUT_SECONDS}

\* C1: right after a valid registration of r the response is 201 echoing
\* r.service_id and a get of r.service_id returns a record equal to r in every
\* caller-supplied field, with last_heartbeat not null and registered_at present
C1_GetAfterRegister ==
    (last.op = "register" /\ last.status = 201) =>
        /\ last.ret.service_id = last.arg.service_id
        /\ get_service(store, last.arg.service_id) # NoService
        /\ \A f \in SubmittedFields(last.arg) :
               get_service(store, last.arg.service_id)[f] = last.arg[f]
        /\ get_service(store, last.arg.service_id).registered_at # None
        /\ get_service(store, last.arg.service_id).last_heartbeat # None

\* C2: an id has exactly one record when the most recent add/remove on it was
\* an add and none otherwise; count() is the number of such ids (none at start)
C2_PresentIffLastWasAdd ==
    /\ \A id \in ServiceIds :
          /\ service_exists(store, id) <=> lastAddRemove[id] = "add"
          /\ Cardinality({r \in get_all_services(store) : r.service_id = id})
                 = IF lastAddRemove[id] = "add" THEN 1 ELSE 0
    /\ get_service_count(store)
           = Cardinality({id \in ServiceIds : lastAddRemove[id] = "add"})

\* a registered service was just unregistered and is absent while another
\* one, whose most recent add/remove was an add, is present
C2_Witness ==
    /\ last.op = "unregister" /\ last.status = 200
    /\ \E id \in ServiceIds : lastAddRemove[id] = "remove" /\ id \notin Registered
    /\ \E id \in ServiceIds : lastAddRemove[id] = "add" /\ id \in Registered

\* C3: remove of an unregistered id returns false and leaves the store as it
\* was; remove of a registered id returns true, deletes the record and the
\* heartbeat entry, get returns nothing afterwards and count is one less
C3_Remove ==
    [][last'.op = "unregister" =>
          IF last'.id \in DOMAIN store.services
          THEN /\ last'.obs = TRUE
               /\ last'.id \notin DOMAIN store'.services
               /\ last'.id \notin DOMAIN store'.heartbeats
               /\ get_service(store', last'.id) = NoService
               /\ get_service_count(store') = get_service_count(store) - 1
          ELSE /\ last'.obs = FALSE
               /\ store' = store]_vars

\* a registered service was removed while another one stays registered
C3_Witness ==
    /\ last.op = "unregister" /\ last.obs = TRUE
    /\ last.id \notin Registered
    /\ Registered # {}

\* C4: re-registering a registered id leaves count() unchanged, makes every
\* field of the stored record equal to the submitted one and refreshes
\* last_heartbeat to the time of the re-registration
C4_ReRegisterReplaces ==
    [][(last'.op = "register" /\ last'.status = 201 /\ last'.id \in DOMAIN store.services) =>
          /\ get_service_count(store') = get_service_count(store)
          /\ \A f \in SubmittedFields(last'.arg) :
                 store'.services[last'.id][f] = last'.arg[f]
          /\ store'.services[last'.id].last_heartbeat # None
          /\ fromisoformat(store'.services[last'.id].last_heartbeat) >= now
          /\ fromisoformat(store'.services[last'.id].last_heartbeat) <= now']_vars

\* C5: heartbeat of an unregistered id returns false and changes neither the
\* records nor the heartbeat entries
C5_HeartbeatUnknown ==
    [][(last'.op = "heartbeat" /\ last'.id \notin DOMAIN store.services) =>
          /\ last'.obs = FALSE
          /\ store' = store]_vars

\* a heartbeat for an unregistered id was refused while a service is registered
C5_Witness ==
    /\ last.op = "heartbeat" /\ last.obs = FALSE
    /\ last.id \notin Registered
    /\ Registered # {}

\* C6: heartbeat of a registered id returns true, sets the heartbeat map entry
\* and the record's last_heartbeat to the clock read during the call, and
\* leaves every other field of the record, the registered ids, and the other
\* records and heartbeat entries as they were
C6_HeartbeatFrame ==
    [][(last'.op = "heartbeat" /\ last'.id \in DOMAIN store.services) =>
          /\ last'.obs = TRUE
          /\ store'.heartbeats[last'.id] >= now
          /\ store'.heartbeats[last'.id] <= now'
          /\ store'.services[last'.id].last_heartbeat # None
          /\ fromisoformat(store'.services[last'.id].last_heartbeat) >= now
          /\ fromisoformat(store'.services[last'.id].last_heartbeat) <= now'
          /\ \A f \in MetadataFields \ {"last_heartbeat"} :
                 store'.services[last'.id][f] = store.services[last'.id][f]
          /\ DOMAIN store'.services = DOMAIN store.services
          /\ DOMAIN store'.heartbeats = DOMAIN store.heartbeats
          /\ \A id \in (DOMAIN store.services) \ {last'.id} :
                 /\ store'.services[id] = store.services[id]
                 /\ store'.heartbeats[id] = store.heartbeats[id]]_vars

\* a heartbeat was acknowledged after the clock moved on from the registration,
\* with a second service registered
C6_Witness ==
    /\ last.op = "heartbeat" /\ last.obs = TRUE
    /\ store.heartbeats[last.id] > 0
    /\ store.services[last.id].registered_at # store.services[last.id].last_heartbeat
    /\ Registered # {last.id}

\* C7: while an id stays registered, the record's last_heartbeat never goes
\* back: once set it stays set and denotes an instant no earlier than before
C7_LastHeartbeatMonotone ==
    [][\A id \in (DOMAIN store.services) \cap (DOMAIN store'.services) :
          store.services[id].last_heartbeat # None =>
              /\ store'.services[id].last_heartbeat # None
              /\ fromisoformat(store'.services[id].last_heartbeat)
                     >= fromisoformat(store.services[id].last_heartbeat)]_vars

\* C8: healthy(timeout) returns exactly the records of the registered ids
\* whose heartbeat age is strictly below timeout, for every timeout and in the
\* result GET /health computed
C8_HealthyExact ==
    /\ \A T \in Timeouts :
          /\ ~healthy_raises(store, T, now)
          /\ get_healthy_services(store, T, now)
                 = {store.services[id] :
                       id \in {i \in Registered : now - store.heartbeats[i] < T}}
          /\ \A r \in get_healthy_services(store, T, now) : r.service_id \in Registered
    /\ last.op = "health" =>
          /\ last.status = 200
          /\ last.obs = {store.services[id] :
                            id \in {i \in Registered :
                                       now - store.heartbeats[i] < SERVICE_TIMEOUT_SECONDS}}

\* GET /health left out a service whose heartbeat age is exactly the timeout
\* and returned another one
C8_Witness ==
    /\ last.op = "health"
    /\ \E id \in Registered :
          /\ now - store.heartbeats[id] = SERVICE_TIMEOUT_SECONDS
          /\ store.services[id] \notin last.obs
    /\ last.obs # {}

\* C9: a health check leaves out a registered service when more than the
\* timeout has passed since its last registration or heartbeat, and returns
\* it when less than the timeout has passed since its last heartbeat began
C9_StaleThenRevived ==
    last.op = "health" =>
        \A id \in Registered :
            /\ now - beat[id].end > SERVICE_TIMEOUT_SECONDS =>
                   store.services[id] \notin last.obs
            /\ now - beat[id].start < SERVICE_TIMEOUT_SECONDS =>
                   store.services[id] \in last.obs

\* a service that a health check had found stale is healthy again after a
\* heartbeat
C9_Witness ==
    /\ last.op = "health"
    /\ \E id \in seenStale \cap Registered : store.services[id] \in last.obs

\* C10: a registered id leaves the store only by an unregister of that id;
\* until then get returns its record and list_all (also through a search
\* without tags) contains it; the clock and the reads leave the store alone
C10_OnlyRemoveDeletes ==
    [][\A id \in DOMAIN store.services :
          /\ id \notin DOMAIN store'.services =>
                 (last'.op = "unregister" /\ last'.id = id)
          /\ (last'.op = "get" /\ last'.id = id) =>
                 (last'.status = 200 /\ last'.ret = store.services[id])
          /\ last'.op = "list" => store.services[id] \in last'.ret
          /\ (last'.op = "search" /\ ~last'.arg.given) =>
                 store.services[id] \in last'.ret
          /\ last'.op \in {"tick", "list", "get", "search", "health"} =>
                 store' = store]_vars

\* get returns a service that a health check had found stale and that has
\* not sent a heartbeat since
C10_Witness ==
    /\ last.op = "get" /\ last.status = 200
    /\ last.id \in seenStale
    /\ now - store.heartbeats[last.id] > SERVICE_TIMEOUT_SECONDS

\* the strings a list holds
Elements(seq) == {seq[i] : i \in 1..Len(seq)}

\* tag lists search_by_tags is evaluated with
TagLists == {<<>>, <<"cardio">>, <<"Cardio">>, <<"CARDIO">>, <<"classification">>,
             <<"zzz">>, <<"zzz", "classification">>, <<"cardio", "cardio">>}

\* the registered records that share at least one tag with the list
CarryingAny(tagset) ==
    {store.services[id] :
        id \in {i \in Registered : Elements(store.services[i].tags) \cap tagset # {}}}

\* C11: search_by_tags of the empty list is list_all(); of any other list it
\* is exactly the registered records with a tag equal to one of the supplied
\* tags (any of them, case kept); a tag no record carries finds nothing
C11_SearchByTags ==
    /\ search_by_tags(store, <<>>) = get_all_services(store)
    /\ \A tags \in TagLists \ {<<>>} :
          search_by_tags(store, tags) = CarryingAny(Elements(tags))
    /\ search_by_tags(store, <<"zzz">>) = {}
    /\ (last.op = "search" /\ last.obs # <<>>) =>
          last.ret = CarryingAny(Elements(last.obs))

\* a search for two tags returned two services that each carry only one of
\* them, and a search for "Cardio" would leave out the service tagged "cardio"
C11_Witness ==
    /\ last.op = "search"
    /\ last.obs = <<"Cardio", "classification">>
    /\ Cardinality(last.ret) = 2
    /\ Cardinality(search_by_tags(store, <<"Cardio">>)) = 1
    /\ Cardinality(search_by_tags(store, <<"cardio">>)) = 2

\* C13: get-by-id, unregister and heartbeat answer 404 exactly when the id
\* is not registered as the request is handled, and 200 otherwise; a 404
\* leaves the store as it was; unregister of a registered id answers 200
\* "unregistered" and the same request would then find nothing to remove
C13_NotFoundIffUnregistered ==
    [][last'.op \in {"get", "unregister", "heartbeat"} =>
          /\ last'.status \in {200, 404}
          /\ last'.status = 404 <=> last'.id \notin DOMAIN store.services
          /\ last'.status = 404 => store' = store
          /\ (last'.op = "unregister" /\ last'.id \in DOMAIN store.services) =>
                 /\ last'.status = 200
                 /\ last'.ret.status = "unregistered"
                 /\ last'.ret.service_id = last'.id
                 /\ ~service_exists(store', last'.id)
                 /\ ~remove_service(store', last'.id).ret]_vars

\* an unregister was answered 200 and repeating it would not find the id,
\* while another service is registered
C13_Witness ==
    /\ last.op = "unregister" /\ last.status = 200
    /\ last.ret.status = "unregistered"
    /\ ~remove_service(store, last.id).ret
    /\ Registered # {}

\* the tags each query string of Queries denotes once it is split on commas
\* and every part is trimmed, written out by hand
TrimmedTags(value) ==
    CASE value = <<>>                                 -> {""}
      [] value = <<"cardio">>                         -> {"cardio"}
      [] value = <<" ", "cardio", " ", ",", "zzz">>   -> {"cardio", "zzz"}
      [] value = <<"Cardio", ",", "classification">> -> {"Cardio", "classification"}
      [] value = <<"zzz", ",">>                       -> {"zzz", ""}

\* C15 as stated: the search route returns the full list when tags is
\* omitted, and whenever tags is given exactly the services carrying one of
\* its comma-separated, trimmed tags
C15_SearchRouteAsStated ==
    last.op = "search" =>
        /\ last.status = 200
        /\ last.ret = IF last.arg.given
                      THEN CarryingAny(TrimmedTags(last.arg.value))
                      ELSE get_all_services(store)

\* C15 amended: the search route returns the full list when tags is omitted
\* or empty, and for a non-empty value exactly the services carrying one of
\* its comma-separated, trimmed tags
C15_SearchRoute ==
    last.op = "search" =>
        /\ last.status = 200
        /\ last.ret = IF last.arg.given /\ last.arg.value # <<>>
                      THEN CarryingAny(TrimmedTags(last.arg.value))
                      ELSE get_all_services(store)

\* a search for " cardio , zzz" found a service, through the trimmed "cardio"
C15_Witness ==
    /\ last.op = "search"
    /\ last.arg.given
    /\ last.arg.value = <<" ", "cardio", " ", ",", "zzz">>
    /\ last.ret # {}

\* C16: GET /health answers 200 "healthy" with registered_services = count()
\* and healthy_services = the number of services whose heartbeat age is below
\* the configured timeout; the healthy number never exceeds the registered one
C16_HealthCounts ==
    /\ Cardinality(get_healthy_services(store, SERVICE_TIMEOUT_SECONDS, now))
           <= get_service_count(store)
    /\ last.op = "health" =>
          /\ last.status = 200
          /\ last.ret.status = "healthy"
          /\ last.ret.registered_services = get_service_count(store)
          /\ last.ret.healthy_services
                 = Cardinality({id \in Registered :
                                   now - store.heartbeats[id] < SERVICE_TIMEOUT_SECONDS})
          /\ 0 <= last.ret.healthy_services
          /\ last.ret.healthy_services <= last.ret.registered_services

\* GET /health reported two registered services of which one is healthy
C16_Witness ==
    /\ last.op = "health"
    /\ last.ret.registered_services = 2
    /\ last.ret.healthy_services = 1

\* C20 as stated: after any (re-)registration the stored registered_at is
\* the time of that registration, read from the registry's clock while the
\* request was handled
C20_RegisteredAtIsRegistrationTime ==
    (last.op = "register" /\ last.status = 201) =>
        \E t \in Times :
            /\ last.start <= t /\ t <= now
            /\ store.services[last.id].registered_at = isoformat(t)

\* C20 amended: after any (re-)registration the stored registered_at is the
\* one of the submitted body when the body carries one, and otherwise the
\* registry's clock when the body was validated; it is never taken from the
\* record that was replaced
C20_RegisteredAtReplaced ==
    (last.op = "register" /\ last.status = 201) =>
        store.services[last.id].registered_at
            = IF "registered_at" \in DOMAIN last.arg
              THEN last.arg.registered_at
              ELSE isoformat(last.start)

\* a body without registered_at was registered after the clock had moved on,
\* and a body with one was registered earlier for the other service
C20_Witness ==
    /\ last.op = "register" /\ last.status = 201
    /\ "registered_at" \notin DOMAIN last.arg
    /\ last.start > 0
    /\ store.services[last.id].registered_at = isoformat(last.start)
    /\ \E id \in Registered \ {last.id} :
          fromisoformat(store.services[id].registered_at) < store.heartbeats[id]

(***************************************************************************)
(* Concurrent callers: the handlers statement by statement                 *)
(*                                                                         *)
(* uvicorn runs the route handlers as coroutines of one event loop.  The   *)
(* handlers of register, unregister and heartbeat contain no await, so the *)
(* loop runs each of them from its first statement to its return before it *)
(* starts another.  ServiceStore has no lock attribute and no statement    *)
(* acquires one: the field lock of a task is never set.                    *)
(***************************************************************************)

\* the service id the callers contend for
LoopId == "cardiovascular_disease"

\* the bodies the concurrent callers register
LoopBodies == {BodyMinimal(LoopId), BodyUpgrade(LoopId)}

\* a scheduler that may switch tasks between any two statements
may_run_preemptive(c) == TRUE

\* the event loop switches tasks only at an await: a handler that has
\* started is the only task that may take a step
may_run(c) == running \in {c, "idle"}

\* no handler is between its first statement and its return
Quiescent == \A c \in Callers : tasks[c].pc \in {"idle", "ready", "done"}

\* the handler of caller c returns (or raises: status 500)
Return(c, status, timestamp, expect) ==
    [tasks EXCEPT ![c].pc = "done", ![c].status = status,
                  ![c].timestamp = timestamp, ![c].expect = expect]

\* a request arrives: the body of a register request is validated before
\* the handler is called
request_arrives ==
    /\ \E c \in Callers :
           /\ tasks[c].pc \in {"idle", "done"}
           /\ \/ \E body \in LoopBodies :
                     tasks' = [tasks EXCEPT ![c] =
                                  [IdleTask EXCEPT !.op = "register", !.pc = "ready",
                                                   !.metadata = ServiceMetadata(body, now)]]
              \/ \E op \in {"unregister", "heartbeat", "get", "list", "search", "health"} :
                     tasks' = [tasks EXCEPT ![c] =
                                  [IdleTask EXCEPT !.op = op, !.pc = "ready"]]
    /\ UNCHANGED <<store, now, running, serial, agg, reqVars, sdkVars>>

\* the clock advances, also while a handler runs
clock_advances ==
    /\ now < MaxClock
    /\ now' = now + Tick
    /\ UNCHANGED <<store, tasks, running, serial, agg, reqVars, sdkVars>>

\* add_service, first statement: self._services[service_id] = metadata
register_write_services ==
    /\ \E c \in Callers :
           /\ tasks[c].op = "register" /\ tasks[c].pc = "ready" /\ may_run(c)
           /\ store' = [store EXCEPT !.services =
                           DictSet(store.services, LoopId, tasks[c].metadata)]
           /\ tasks' = [tasks EXCEPT ![c].pc = "add2"]
           /\ running' = c
    /\ UNCHANGED <<now, serial, agg, reqVars, sdkVars>>

\* add_service, second statement: self._heartbeats[service_id] = now();
\* register_service returns 201
register_write_heartbeats ==
    /\ \E c \in Callers :
           /\ tasks[c].op = "register" /\ tasks[c].pc = "add2" /\ may_run(c)
           /\ store' = [store EXCEPT !.heartbeats =
                           DictSet(store.heartbeats, LoopId, now)]
           /\ tasks' = Return(c, 201, None, 201)
           /\ serial' = add_service(serial, tasks[c].metadata, now)
           /\ running' = "idle"
    /\ UNCHANGED <<now, agg, reqVars, sdkVars>>

\* remove_service, the membership test and del self._services[service_id];
\* unregister_service raises 404 when the test fails
unregister_pop_services ==
    /\ \E c \in Callers :
           /\ tasks[c].op = "unregister" /\ tasks[c].pc = "ready" /\ may_run(c)
           /\ IF LoopId \in DOMAIN store.services
              THEN /\ store' = [store EXCEPT !.services = DictPop(store.services, LoopId)]
                   /\ tasks' = [tasks EXCEPT ![c].pc = "rm2"]
                   /\ running' = c
                   /\ UNCHANGED serial
              ELSE /\ tasks' = Return(c, 404, None,
                                      IF remove_service(serial, LoopId).ret
                                      THEN 200 ELSE 404)
                   /\ serial' = remove_service(serial, LoopId).store
                   /\ running' = "idle"
                   /\ UNCHANGED store
    /\ UNCHANGED <<now, agg, reqVars, sdkVars>>

\* remove_service, self._heartbeats.pop(service_id, None);
\* unregister_service returns 200
unregister_pop_heartbeats ==
    /\ \E c \in Callers :
           /\ tasks[c].op = "unregister" /\ tasks[c].pc = "rm2" /\ may_run(c)
           /\ store' = [store EXCEPT !.heartbeats = DictPop(store.heartbeats, LoopId)]
           /\ tasks' = Return(c, 200, None,
                              IF remove_service(serial, LoopId).ret THEN 200 ELSE 404)
           /\ serial' = remove_service(serial, LoopId).store
           /\ running' = "idle"
    /\ UNCHANGED <<now, agg, reqVars, sdkVars>>

\* update_heartbeat, the membership test and
\* self._heartbeats[service_id] = now(); service_heartbeat raises 404 when
\* the test fails
heartbeat_write_map ==
    /\ \E c \in Callers :
           /\ tasks[c].op = "heartbeat" /\ tasks[c].pc = "ready" /\ may_run(c)
           /\ IF LoopId \in DOMAIN store.services
              THEN /\ store' = [store EXCEPT !.heartbeats =
                                   DictSet(store.heartbeats, LoopId, now)]
                   /\ tasks' = [tasks EXCEPT ![c].pc = "hb2", ![c].t1 = now]
                   /\ running' = c
                   /\ UNCHANGED serial
              ELSE /\ tasks' = Return(c, 404, None,
                                      IF update_heartbeat(serial, LoopId, now, now).ret
                                      THEN 200 ELSE 404)
                   /\ serial' = update_heartbeat(serial, LoopId, now, now).store
                   /\ running' = "idle"
                   /\ UNCHANGED store
    /\ UNCHANGED <<now, agg, reqVars, sdkVars>>

\* update_heartbeat,
\* self._services[service_id].last_heartbeat = now().isoformat(): a KeyError
\* when the record is gone, which the handler does not catch
heartbeat_write_field ==
    /\ \E c \in Callers :
           /\ tasks[c].op = "heartbeat" /\ tasks[c].pc = "hb2" /\ may_run(c)
           /\ IF LoopId \in DOMAIN store.services
              THEN /\ store' = [store EXCEPT !.services[LoopId].last_heartbeat =
                                                 isoformat(now)]
                   /\ tasks' = [tasks EXCEPT ![c].pc = "hb3", ![c].t2 = now]
                   /\ running' = c
              ELSE /\ tasks' = Return(c, 500, None, 200)
                   /\ running' = "idle"
                   /\ UNCHANGED store
    /\ UNCHANGED <<now, serial, agg, reqVars, sdkVars>>

\* service_heartbeat, service_store.get_service(service_id).last_heartbeat:
\* an AttributeError when get_service returns None
heartbeat_read_back ==
    /\ \E c \in Callers :
           /\ tasks[c].op = "heartbeat" /\ tasks[c].pc = "hb3" /\ may_run(c)
           /\ LET service == get_service(store, LoopId)
                  call == update_heartbeat(serial, LoopId, tasks[c].t1, tasks[c].t2)
              IN  /\ tasks' = IF service = NoService
                              THEN Return(c, 500, None, 200)
                              ELSE Return(c, 200, service.last_heartbeat,
                                          IF call.ret THEN 200 ELSE 404)
                  /\ serial' = call.store
           /\ running' = "idle"
    /\ UNCHANGED <<store, now, agg, reqVars, sdkVars>>

\* get_service: one call of the store, 404 when it returns None
get_service_runs ==
    /\ \E c \in Callers :
           /\ tasks[c].op = "get" /\ tasks[c].pc = "ready" /\ may_run(c)
           /\ tasks' = Return(c, IF get_service(store, LoopId) # NoService THEN 200 ELSE 404,
                              None,
                              IF get_service(serial, LoopId) # NoService THEN 200 ELSE 404)
    /\ UNCHANGED <<store, now, running, serial, agg, reqVars, sdkVars>>

\* list_services: get_all_services never raises
list_services_runs ==
    /\ \E c \in Callers :
           /\ tasks[c].op = "list" /\ tasks[c].pc = "ready" /\ may_run(c)
           /\ tasks' = Return(c, 200, None, 200)
    /\ UNCHANGED <<store, now, running, serial, agg, reqVars, sdkVars>>

\* search_services: search_by_tags never raises
search_services_runs ==
    /\ \E c \in Callers :
           /\ tasks[c].op = "search" /\ tasks[c].pc = "ready" /\ may_run(c)
           /\ tasks' = Return(c, 200, None, 200)
    /\ UNCHANGED <<store, now, running, serial, agg, reqVars, sdkVars>>

\* health: get_healthy_services raises KeyError on a heartbeat entry newer
\* than the cutoff that has no record, which the handler does not catch
health_runs ==
    /\ \E c \in Callers :
           /\ tasks[c].op = "health" /\ tasks[c].pc = "ready" /\ may_run(c)
           /\ tasks' = Return(c,
                              IF healthy_raises(store, SERVICE_TIMEOUT_SECONDS, now)
                              THEN 500 ELSE 200,
                              None,
                              IF healthy_raises(serial, SERVICE_TIMEOUT_SECONDS, now)
                              THEN 500 ELSE 200)
    /\ UNCHANGED <<store, now, running, serial, agg, reqVars, sdkVars>>

NextLoop ==
    \/ request_arrives
    \/ clock_advances
    \/ register_write_services
    \/ register_write_heartbeats
    \/ unregister_pop_services
    \/ unregister_pop_heartbeats
    \/ heartbeat_write_map
    \/ heartbeat_write_field
    \/ heartbeat_read_back
    \/ get_service_runs
    \/ list_services_runs
    \/ search_services_runs
    \/ health_runs

SpecLoop == Init /\ [][NextLoop]_vars

\* a task is between the first and the last store access of its handler
MidHandler(c) == tasks[c].pc \in {"add2", "rm2", "hb2", "hb3"}

\* C12 as stated: concurrent register, heartbeat and unregister calls for
\* one service id leave the store equal to what the calls produce one after
\* another in some order, with both maps holding the same ids, and every
\* handler that is between its store accesses holds the exclusive lock of
\* the store
C12_SerialUnderOneLock ==
    /\ Quiescent => (store = serial /\ DOMAIN store.services = DOMAIN store.heartbeats)
    /\ \A c \in Callers : MidHandler(c) => tasks[c].lock

\* C12: concurrent register, heartbeat and unregister calls for one service
\* id leave the store equal to what the calls produce one after another in
\* the order their handlers returned, with both maps holding the same ids
\* and every response the one of that serial order; no lock is held: a
\* handler that has started is the only one between its store accesses
C12_Serializable ==
    /\ Quiescent => (store = serial /\ DOMAIN store.services = DOMAIN store.heartbeats)
    /\ \A c \in Callers : tasks[c].pc = "done" => tasks[c].status = tasks[c].expect
    /\ \A c \in Callers : MidHandler(c) => (running = c /\ ~tasks[c].lock)

C12_Witness ==
    /\ Quiescent
    /\ LoopId \in DOMAIN store.services
    /\ store.services[LoopId].last_heartbeat # None
    /\ \E c1, c2 \in Callers :
          /\ c1 # c2
          /\ tasks[c1].op = "register" /\ tasks[c1].pc = "done" /\ tasks[c1].status = 201
          /\ tasks[c2].op = "heartbeat" /\ tasks[c2].pc = "done" /\ tasks[c2].status = 200

\* the handler of caller c returns in this step
Returns(c) == tasks[c].pc # "done" /\ tasks'[c].pc = "done"

\* C14: a heartbeat handler that finds the id registered returns 200 with
\* the timestamp it wrote itself, which is the last_heartbeat a get returns
\* right after, whatever requests of other callers are pending; a heartbeat
\* handler never returns 500
C14_HeartbeatAck ==
    [][\A c \in Callers :
           (Returns(c) /\ tasks[c].op = "heartbeat") =>
               /\ tasks'[c].status \in {200, 404}
               /\ tasks'[c].status = 404 <=> tasks[c].pc = "ready"
               /\ tasks'[c].status = 200 =>
                      /\ tasks'[c].timestamp = isoformat(tasks'[c].t2)
                      /\ get_service(store', LoopId).last_heartbeat = tasks'[c].timestamp]_vars

C14_Witness ==
    \E c1, c2 \in Callers :
        /\ c1 # c2
        /\ tasks[c1].op = "heartbeat" /\ tasks[c1].pc = "done" /\ tasks[c1].status = 200
        /\ tasks[c1].t1 < tasks[c1].t2
        /\ tasks[c1].timestamp = isoformat(tasks[c1].t2)
        /\ tasks[c2].op = "unregister" /\ tasks[c2].pc = "ready"
        /\ LoopId \in DOMAIN store.services

(***************************************************************************)
(* GET /api/v1/health/all: aggregate_health statement by statement         *)
(*                                                                         *)
(* The handler awaits each probe inside its for loop; at every await the   *)
(* event loop may run the handlers of other requests, each to its return.  *)
(* all_services holds the objects of the store: a heartbeat mutates the    *)
(* stored object in place, a registration puts a new object in the store.  *)
(***************************************************************************)

\* the bodies registered while aggregate_health runs
AggBodies == {BodyMinimal(id) : id \in ServiceIds}

\* what a probed service reports in the status member of its health body
StatusStrings == {"healthy", "Healthy", "ok", "OK", "degraded"}

\* the JSON value of the status member of a health body
StatusValues ==
    {[type |-> "absent", value |-> ""], [type |-> "null", value |-> ""],
     [type |-> "number", value |-> ""]}
        \cup {[type |-> "str", value |-> v] : v \in StatusStrings}

\* the body of a probe response: not JSON, a JSON array, or a JSON object
HealthBodies ==
    {[kind |-> "not_json", status |-> [type |-> "absent", value |-> ""]],
     [kind |-> "array", status |-> [type |-> "absent", value |-> ""]]}
        \cup {[kind |-> "object", status |-> v] : v \in StatusValues}

\* what await client.get(health_url) produces: an exception of httpx or a
\* response
ProbeOutcomes ==
    {[error |-> e, status_code |-> 0, body |-> [kind |-> "not_json",
                                                 status |-> [type |-> "absent", value |-> ""]]] :
        e \in {"ConnectError", "ReadTimeout"}}
    \cup {[error |-> "none", status_code |-> c, body |-> [kind |-> "not_json",
                                                           status |-> [type |-> "absent", value |-> ""]]] :
        c \in {404, 503}}
    \cup {[error |-> "none", status_code |-> 200, body |-> b] : b \in HealthBodies}

\* str.lower left out
lower_identity(s) == s

\* str.lower on the status strings
lower(s) ==
    CASE s = "OK" -> "ok"
      [] s = "Healthy" -> "healthy"
      [] OTHER -> s

\* the try block raises: client.get raises, response.json() raises on a body
\* that is not JSON, .get is missing on a body that is not an object,
\* .lower is missing on a status that is not a string
probe_raises(r) ==
    \/ r.error # "none"
    \/ /\ r.status_code = 200
       /\ \/ r.body.kind # "object"
          \/ r.body.status.type \in {"null", "number"}

\* the status aggregate_health assigns after a probe
probe_status(r) ==
    IF probe_raises(r) THEN "unhealthy"
    ELSE IF r.status_code = 200
         THEN LET value == IF r.body.status.type = "absent" THEN "" ELSE r.body.status.value
              IN  IF lower(value) \in {"healthy", "ok"} THEN "healthy" ELSE "unhealthy"
         ELSE "unhealthy"

\* an entry without the last_heartbeat member
health_entry_without_heartbeat(service, status) ==
    [service_name |-> service.service_name, status |-> status,
     base_url |-> service.base_url]

\* the entry aggregate_health stores under service.service_id
health_entry(service, status) ==
    [service_name |-> service.service_name, status |-> status,
     base_url |-> service.base_url, last_heartbeat |-> service.last_heartbeat]

\* the object all_services holds for an id is no longer the one in the store
Detach(id) ==
    IF id \in DOMAIN agg.all_services
    THEN [agg EXCEPT !.all_services[id].live = FALSE]
    ELSE agg

\* all_services = service_store.get_all_services(); health_status = {}
aggregate_health_start ==
    /\ agg.pc \in {"idle", "done"}
    /\ agg' = [IdleAggregate EXCEPT
                  !.pc = "loop",
                  !.all_services = [id \in DOMAIN store.services |->
                                       [service |-> store.services[id], live |-> TRUE]],
                  !.todo = DOMAIN store.services]
    /\ UNCHANGED <<store, now, tasks, running, serial, reqVars, sdkVars>>

\* the for loop takes the next service and awaits client.get(health_url)
aggregate_health_get ==
    /\ agg.pc = "loop"
    /\ \E id \in agg.todo : agg' = [agg EXCEPT !.pc = "await", !.service = id]
    /\ UNCHANGED <<store, now, tasks, running, serial, reqVars, sdkVars>>

\* await client.get(health_url) ends: the probe is answered or raises
aggregate_health_response ==
    /\ agg.pc = "await"
    /\ \E r \in ProbeOutcomes :
           agg' = [agg EXCEPT !.pc = "classify",
                              !.probe = [service_id |-> agg.service, response |-> r]]
    /\ UNCHANGED <<store, now, tasks, running, serial, reqVars, sdkVars>>

\* the rest of the loop body, which has no await: the status is computed
\* and the entry of the service is stored
aggregate_health_entry ==
    /\ agg.pc = "classify"
    /\ LET service == agg.all_services[agg.service].service
       IN  agg' = [agg EXCEPT
                      !.pc = "loop",
                      !.service = None,
                      !.todo = agg.todo \ {agg.service},
                      !.probe = [service_id |-> None],
                      !.health_status = DictSet(agg.health_status, service.service_id,
                                                health_entry(service,
                                                             probe_status(agg.probe.response)))]
    /\ UNCHANGED <<store, now, tasks, running, serial, reqVars, sdkVars>>

\* faulty return: only the services still registered are reported
aggregate_health_return_live ==
    /\ agg.pc = "loop"
    /\ agg.todo = {}
    /\ agg' = [agg EXCEPT !.pc = "done", !.status_code = 200,
                          !.all_services = EmptyDict,
                          !.health_status = [id \in DOMAIN agg.health_status
                                                     \cap DOMAIN store.services |->
                                                agg.health_status[id]]]
    /\ UNCHANGED <<store, now, tasks, running, serial, reqVars, sdkVars>>

\* the for loop is exhausted: return health_status
aggregate_health_return ==
    /\ agg.pc = "loop"
    /\ agg.todo = {}
    /\ agg' = [agg EXCEPT !.pc = "done", !.status_code = 200,
                          !.all_services = EmptyDict]
    /\ UNCHANGED <<store, now, tasks, running, serial, reqVars, sdkVars>>

\* aggregate_health is suspended at an await, or not running
Suspended == agg.pc # "classify"

\* POST /services runs to its return while aggregate_health is suspended
concurrent_register ==
    /\ Suspended
    /\ \E body \in AggBodies :
           LET metadata == ServiceMetadata(body, now)
           IN  /\ store' = add_service(store, metadata, now)
               /\ agg' = Detach(metadata.service_id)
    /\ UNCHANGED <<now, tasks, running, serial, reqVars, sdkVars>>

\* DELETE /services/{service_id} runs to its return
concurrent_unregister ==
    /\ Suspended
    /\ \E id \in ServiceIds :
           /\ store' = remove_service(store, id).store
           /\ agg' = IF remove_service(store, id).ret THEN Detach(id) ELSE agg
    /\ UNCHANGED <<now, tasks, running, serial, reqVars, sdkVars>>

\* POST /services/{service_id}/heartbeat runs to its return: the stored
\* object is mutated in place
concurrent_heartbeat ==
    /\ Suspended
    /\ \E id \in ServiceIds :
           /\ store' = update_heartbeat(store, id, now, now).store
           /\ agg' = IF /\ id \in DOMAIN store.services
                        /\ id \in DOMAIN agg.all_services
                        /\ agg.all_services[id].live
                     THEN [agg EXCEPT !.all_services[id].service.last_heartbeat =
                                          isoformat(now)]
                     ELSE agg
    /\ UNCHANGED <<now, tasks, running, serial, reqVars, sdkVars>>

NextAgg ==
    \/ clock_advances
    \/ aggregate_health_start
    \/ aggregate_health_get
    \/ aggregate_health_response
    \/ aggregate_health_entry
    \/ aggregate_health_return
    \/ concurrent_register
    \/ concurrent_unregister
    \/ concurrent_heartbeat

SpecAgg == Init /\ [][NextAgg]_vars

\* the probes that have been issued
Issued == (DOMAIN agg.all_services \ agg.todo) \cup
              (IF agg.pc \in {"await", "classify"} THEN {agg.service} ELSE {})

AggTypeOK ==
    /\ agg.pc \in {"idle", "loop", "await", "classify", "done"}
    /\ agg.todo \subseteq DOMAIN agg.all_services
    /\ agg.pc # "done" => DOMAIN agg.health_status = DOMAIN agg.all_services \ agg.todo

\* the step that stores the entry of the probed service
StoresEntry == agg.pc = "classify" /\ agg'.pc = "loop"

\* the probed service answered 200 with a JSON object whose status is the
\* word healthy or ok, in any letter case
ReportsHealthy(r) ==
    /\ r.error = "none"
    /\ r.status_code = 200
    /\ r.body.kind = "object"
    /\ r.body.status.type = "str"
    /\ r.body.status.value \in {"healthy", "Healthy", "ok", "OK"}

\* C17 as stated: each entry of the aggregate health mapping carries
\* service_name, status, base_url and last_heartbeat; a registered service
\* whose heartbeat is older than the timeout is reported unhealthy and one
\* whose heartbeat is of this instant is reported healthy
C17_StatusFromHeartbeat ==
    [][StoresEntry =>
          LET id == agg.service
              entry == agg'.health_status[id]
          IN  /\ DOMAIN entry = {"service_name", "status", "base_url", "last_heartbeat"}
              /\ id \in DOMAIN store.heartbeats =>
                     /\ now - store.heartbeats[id] > SERVICE_TIMEOUT_SECONDS
                            => entry.status = "unhealthy"
                     /\ store.heartbeats[id] = now => entry.status = "healthy"]_vars

\* C17: the aggregate health mapping is keyed by service_id and each entry
\* carries service_name, base_url and last_heartbeat of the listed record
\* and a status; the status is healthy exactly when the probe of that
\* service answered healthy, whatever the age of its heartbeat
C17_AggregateEntries ==
    [][StoresEntry =>
          LET id == agg.service
              service == agg.all_services[id].service
              entry == agg'.health_status[id]
          IN  /\ service.service_id = id
              /\ DOMAIN agg'.health_status = DOMAIN agg.health_status \cup {id}
              /\ DOMAIN entry = {"service_name", "status", "base_url", "last_heartbeat"}
              /\ entry.service_name = service.service_name
              /\ entry.base_url = service.base_url
              /\ entry.last_heartbeat = service.last_heartbeat
              /\ entry.status \in {"healthy", "unhealthy"}
              /\ entry.status = "healthy" <=> ReportsHealthy(agg.probe.response)]_vars

C17_Witness ==
    /\ agg.pc = "done"
    /\ \E stale, fresh \in DOMAIN agg.health_status \cap DOMAIN store.heartbeats :
          /\ now - store.heartbeats[stale] > SERVICE_TIMEOUT_SECONDS
          /\ agg.health_status[stale].status = "healthy"
          /\ store.heartbeats[fresh] = now
          /\ agg.health_status[fresh].last_heartbeat = isoformat(now)
          /\ agg.health_status[fresh].status = "unhealthy"

\* C18 as stated: a probed service is reported healthy only if its health
\* endpoint answered 200 with a body whose status reads "healthy" or "ok";
\* every other probe result makes that one service unhealthy, and the
\* endpoint answers 200 with one entry per probed service
C18_HealthyOnlyIfReadsHealthyOrOk ==
    [][/\ StoresEntry =>
              LET r == agg.probe.response
              IN  /\ agg'.health_status[agg.service].status = "healthy" =>
                         /\ r.error = "none" /\ r.status_code = 200
                         /\ r.body.kind = "object" /\ r.body.status.type = "str"
                         /\ r.body.status.value \in {"healthy", "ok"}
                  /\ \A other \in DOMAIN agg.health_status \ {agg.service} :
                         agg'.health_status[other] = agg.health_status[other]
       /\ agg'.pc = "done" => agg'.status_code = 200]_vars

\* C18: a probed service is reported healthy exactly when its health
\* endpoint answered 200 with a JSON object whose status is healthy or ok in
\* any letter case; a network error, a timeout, another status code, a body
\* that is not JSON or not an object, or a status that is missing or not a
\* string makes that one service unhealthy and changes no other entry; the
\* endpoint answers 200 with one entry per listed service
C18_ProbeClassification ==
    [][/\ StoresEntry =>
              /\ agg'.health_status[agg.service].status =
                     IF ReportsHealthy(agg.probe.response) THEN "healthy" ELSE "unhealthy"
              /\ \A other \in DOMAIN agg.health_status \ {agg.service} :
                     agg'.health_status[other] = agg.health_status[other]
              /\ agg'.status_code = 0
       /\ (agg.pc = "loop" /\ agg'.pc = "done") =>
              /\ agg'.status_code = 200
              /\ agg'.health_status = agg.health_status
              /\ DOMAIN agg'.health_status = DOMAIN agg.all_services
       /\ agg'.status_code \in {0, 200}]_vars

C18_Witness ==
    /\ agg.pc = "done"
    /\ agg.status_code = 200
    /\ DOMAIN agg.health_status = ServiceIds
    /\ \E failed, answered \in ServiceIds :
          /\ agg.health_status[failed].status = "unhealthy"
          /\ agg.health_status[answered].status = "healthy"
          /\ agg.probe = [service_id |-> None]

\* C19 as stated: the probes of the listed services are issued
\* concurrently: while the answer of one probe is awaited, the probe of
\* every other listed service has been issued
C19_ProbesIssuedConcurrently ==
    agg.pc = "await" => Issued = DOMAIN agg.all_services

\* C21: whatever requests of concurrent callers interleave, every handler
\* returns 200, 201 or 404, never a 5xx; 404 comes only from get,
\* unregister and heartbeat, and get answers 404 exactly when the id has no
\* record
C21_NoServerError ==
    [][\A c \in Callers :
           Returns(c) =>
               /\ tasks'[c].status \in {200, 201, 404}
               /\ tasks'[c].status < 500
               /\ tasks'[c].status = 404 =>
                      /\ tasks[c].op \in {"get", "unregister", "heartbeat"}
                      /\ LoopId \notin DOMAIN store.services
               /\ (tasks[c].op = "get" /\ LoopId \notin DOMAIN store.services)
                      => tasks'[c].status = 404
               /\ tasks[c].op = "health" =>
                      ~healthy_raises(store, SERVICE_TIMEOUT_SECONDS, now)]_vars

C21_Witness ==
    \E c1, c2 \in Callers :
        /\ c1 # c2
        /\ tasks[c1].op = "health" /\ tasks[c1].pc = "done" /\ tasks[c1].status = 200
        /\ tasks[c2].op = "unregister" /\ tasks[c2].pc = "done" /\ tasks[c2].status = 200
        /\ store = NewStore

(***************************************************************************)
(* Prediction services: lifespan and RegistryClient                        *)
(*                                                                         *)
(* Every instance registers under the service id of its settings when it   *)
(* starts and unregisters that id when it shuts down.  The lifespan calls  *)
(* register_service and unregister_service only; no code of the services   *)
(* calls RegistryClient.heartbeat, which is left to other users of the     *)
(* SDK.                                                                    *)
(***************************************************************************)

\* what an HTTP request of the RegistryClient runs into, and whether the
\* registry handled the request: a response of the registry, an error
\* status of a gateway in front of it, an unreachable registry, a timeout
\* before or after the registry handled the request, and an exception that
\* is not an httpx.HTTPError
NetOutcomes ==
    {[error |-> "none", handled |-> TRUE], [error |-> "none", handled |-> FALSE],
     [error |-> "ConnectError", handled |-> FALSE],
     [error |-> "ReadTimeout", handled |-> TRUE],
     [error |-> "ReadTimeout", handled |-> FALSE],
     [error |-> "TypeError", handled |-> FALSE]}

\* the status code the client receives
ReceivedStatus(net, handler_status) ==
    IF net.error # "none" THEN 0
    ELSE IF net.handled THEN handler_status ELSE 503

\* a RegistryClient method that catches httpx.HTTPError only
RegistryClient_call_reraises(error, status_code) ==
    IF error \in {"ConnectError", "ReadTimeout"} THEN "False"
    ELSE IF error # "none" THEN "raise"
    ELSE IF status_code >= 400 THEN "False"
    ELSE "True"

\* register_service, unregister_service and heartbeat of RegistryClient: one
\* request; raise_for_status raises on an error status; httpx.HTTPError and
\* every other Exception are caught and False is returned
RegistryClient_call(error, status_code) ==
    IF error # "none" THEN "False"
    ELSE IF status_code >= 400 THEN "False"
    ELSE "True"

\* the record of a call
ClientCall(method, by, net, status_code) ==
    [method |-> method, by |-> by, error |-> net.error, status_code |-> status_code,
     handled |-> net.handled,
     requests |-> IF net.error = "TypeError" THEN 0 ELSE 1,
     returned |-> RegistryClient_call(net.error, status_code)]

\* the metadata an instance builds at startup and sends as model_dump()
LifespanBody == [BodyClient(LoopId) EXCEPT !.registered_at = isoformat(now)]

\* lifespan up to yield: with AUTO_REGISTER a RegistryClient is created and
\* register_service is awaited; whatever it returns or raises, the
\* application starts
lifespan_startup ==
    /\ \E i \in Instances, AUTO_REGISTER \in BOOLEAN, net \in NetOutcomes :
           /\ inst[i].pc = "stopped"
           /\ IF AUTO_REGISTER
              THEN LET c == ClientCall("register_service", i, net,
                                       ReceivedStatus(net, 201))
                   IN  /\ clientCall' = c
                       /\ store' = IF net.handled
                                   THEN add_service(store, ServiceMetadata(LifespanBody, now), now)
                                   ELSE store
                       /\ inst' = [inst EXCEPT ![i] =
                                      [pc |-> "running", registry_client |-> TRUE,
                                       registered |-> IF c.returned = "raise"
                                                      THEN "None" ELSE c.returned]]
              ELSE /\ inst' = [inst EXCEPT ![i] =
                                  [pc |-> "running", registry_client |-> FALSE,
                                   registered |-> "None"]]
                   /\ UNCHANGED <<store, clientCall>>
    /\ UNCHANGED <<now, loader, stmtVars, reqVars>>

\* lifespan after yield: an instance that created a RegistryClient awaits
\* unregister_service(settings.SERVICE_ID)
lifespan_shutdown ==
    /\ \E i \in Instances, net \in NetOutcomes :
           /\ inst[i].pc = "running"
           /\ inst' = [inst EXCEPT ![i] = StoppedInstance]
           /\ IF inst[i].registry_client
              THEN LET r == remove_service(store, LoopId)
                   IN  /\ clientCall' = ClientCall("unregister_service", i, net,
                                            ReceivedStatus(net, IF r.ret THEN 200 ELSE 404))
                       /\ store' = IF net.handled THEN r.store ELSE store
              ELSE UNCHANGED <<store, clientCall>>
    /\ UNCHANGED <<now, loader, stmtVars, reqVars>>

\* RegistryClient.heartbeat, called by a user of the SDK
sdk_heartbeat ==
    /\ \E net \in NetOutcomes :
           LET r == update_heartbeat(store, LoopId, now, now)
           IN  /\ clientCall' = ClientCall("heartbeat", "sdk_user", net,
                                    ReceivedStatus(net, IF r.ret THEN 200 ELSE 404))
               /\ store' = IF net.handled THEN r.store ELSE store
    /\ UNCHANGED <<now, inst, loader, stmtVars, reqVars>>

NextSdk ==
    \/ clock_advances
    \/ lifespan_startup
    \/ lifespan_shutdown
    \/ sdk_heartbeat

SpecSdk == Init /\ [][NextSdk]_vars

\* C22: a RegistryClient method returns True or False and sends at most one
\* request; it returns True exactly when the response arrived with status
\* 200 or 201, and False on an error status, a timeout, an unreachable
\* registry or any other exception; a lifespan whose registration was not
\* acknowledged runs on, with its registration recorded as failed
C22_ClientNeverRaises ==
    /\ clientCall.method # "none" =>
           /\ clientCall.returned \in {"True", "False"}
           /\ clientCall.requests <= 1
           /\ clientCall.returned = "True" <=>
                  (clientCall.error = "none" /\ clientCall.status_code \in {200, 201})
    /\ \A i \in Instances :
           /\ inst[i].pc \in {"stopped", "running"}
           /\ inst[i].registry_client => inst[i].registered \in {"True", "False"}
           /\ (clientCall.method = "register_service" /\ clientCall.by = i
                   /\ inst[i].pc = "running")
                  => inst[i].registered = clientCall.returned

C22_Witness ==
    \E i \in Instances :
        /\ inst[i].pc = "running"
        /\ inst[i].registered = "False"
        /\ clientCall.method = "register_service" /\ clientCall.by = i
        /\ clientCall.error = "ConnectError"
        /\ LoopId \notin DOMAIN store.services

\* C23 as stated: an instance that registered and is running keeps sending
\* heartbeats, so as long as its id is registered the registry counts the id
\* among the services with a heartbeat within the timeout
C23_RunningStaysHealthy ==
    \A i \in Instances :
        (inst[i].pc = "running" /\ inst[i].registered = "True"
             /\ LoopId \in DOMAIN store.heartbeats)
            => LoopId \in healthy_ids(store, SERVICE_TIMEOUT_SECONDS, now)

\* C28 as stated: an instance that registered and is running is found by a
\* get of its service id until it unregisters itself, whatever other
\* instances of the same service start or shut down
C28_DiscoverableWhileRunning ==
    \A i \in Instances :
        (inst[i].pc = "running" /\ inst[i].registered = "True")
            => get_service(store, LoopId) # NoService

\* C24: after every request both maps hold the same ids, so
\* get_healthy_services finds a record for every heartbeat it selects,
\* whatever the timeout
C24_KeySetsEqual ==
    /\ DOMAIN store.heartbeats = DOMAIN store.services
    /\ \A timeout_seconds \in Timeouts :
           /\ ~healthy_raises(store, timeout_seconds, now)
           /\ healthy_ids(store, timeout_seconds, now) \subseteq Registered

C24_Witness ==
    /\ last.op = "health" /\ last.status = 200
    /\ \E gone, kept \in ServiceIds :
          /\ lastAddRemove[gone] = "remove"
          /\ gone \notin DOMAIN store.heartbeats
          /\ kept \in DOMAIN store.heartbeats
          /\ now - store.heartbeats[kept] > SERVICE_TIMEOUT_SECONDS

\* C25 as stated: for every registered service the last_heartbeat field of
\* the record is set and denotes the instant held in the heartbeat map
C25_FieldAgreesWithMap ==
    \A id \in Registered :
        /\ store.services[id].last_heartbeat # None
        /\ fromisoformat(store.services[id].last_heartbeat) = store.heartbeats[id]

\* C26: register, unregister and heartbeat for one id leave the record and
\* the heartbeat of every other id as they were, and get, list, search and
\* health leave the store as it was
C26_Frame ==
    [][/\ last'.op \in {"register", "unregister", "heartbeat"} =>
              \A id \in ServiceIds \ {last'.id} :
                  /\ (id \in DOMAIN store'.services) <=> (id \in DOMAIN store.services)
                  /\ (id \in DOMAIN store'.heartbeats) <=> (id \in DOMAIN store.heartbeats)
                  /\ id \in DOMAIN store.services =>
                         store'.services[id] = store.services[id]
                  /\ id \in DOMAIN store.heartbeats =>
                         store'.heartbeats[id] = store.heartbeats[id]
       /\ last'.op \in {"get", "list", "search", "health"} => store' = store]_vars

C26_Witness ==
    /\ last.op = "unregister" /\ last.status = 200
    /\ \E id \in Registered :
          /\ id # last.id
          /\ store.services[id].last_heartbeat # None
          /\ store.heartbeats[id] < now

\* C27: the services aggregate_health iterates are those registered when it
\* started; requests handled while it awaits a probe add none and drop
\* none; the response has exactly one entry for each of them
C27_SnapshotEntries ==
    [][/\ (agg.pc \in {"idle", "done"} /\ agg'.pc = "loop") =>
              DOMAIN agg'.all_services = DOMAIN store.services
       /\ (agg.pc \in {"loop", "await", "classify"} /\ agg'.pc # "done") =>
              DOMAIN agg'.all_services = DOMAIN agg.all_services
       /\ (agg.pc = "loop" /\ agg'.pc = "done") =>
              DOMAIN agg'.health_status = DOMAIN agg.all_services]_vars

C27_Witness ==
    /\ agg.pc = "done"
    /\ agg.status_code = 200
    /\ \E gone \in DOMAIN agg.health_status : gone \notin DOMAIN store.services
    /\ \E new \in DOMAIN store.services :
          /\ new \notin DOMAIN agg.health_status
          /\ fromisoformat(store.services[new].registered_at) < now

(***************************************************************************)
(* Prediction services: the model loader                                   *)
(***************************************************************************)

\* the models directory a service may find at startup: latest_model_info.json
\* (missing, not JSON, or a JSON object with some of the three path keys)
\* and the files the paths name
FileSystems ==
    [info : {"missing", "not_json", "json"},
     keys : SUBSET {"model_path", "scaler_path", "metadata_path"},
     model_file : {"missing", "corrupt", "ok"},
     scaler_file : {"missing", "corrupt", "ok"},
     metadata_file : {"missing", "not_json", "array", "object"}]

\* load_latest_model: every return False and every exception leaves the
\* attributes assigned so far
load_latest_model(L, files) ==
    LET failed(M) == [M EXCEPT !.returned = "False", !.files = files]
    IN  IF files.info = "missing" THEN failed(L)
        ELSE IF files.info = "not_json" THEN failed(L)
        ELSE IF "model_path" \notin files.keys THEN failed(L)
        ELSE IF files.model_file # "ok" THEN failed(L)
        ELSE LET L1 == [L EXCEPT !.model = "model"]
             IN  IF "scaler_path" \notin files.keys THEN failed(L1)
                 ELSE IF files.scaler_file # "ok" THEN failed(L1)
                 ELSE LET L2 == [L1 EXCEPT !.scaler = "scaler"]
                      IN  IF "metadata_path" \notin files.keys THEN failed(L2)
                          ELSE IF files.metadata_file = "missing"
                               THEN [L2 EXCEPT !.returned = "True", !.files = files]
                          ELSE IF files.metadata_file = "not_json" THEN failed(L2)
                          ELSE IF files.metadata_file = "array"
                               THEN failed([L2 EXCEPT !.metadata = "[metadata]"])
                          ELSE [L2 EXCEPT !.metadata = "{metadata}",
                                          !.feature_names = "feature_names",
                                          !.returned = "True", !.files = files]

\* is_loaded
is_loaded(L) == L.model # None /\ L.scaler # None

\* lifespan: success = model_loader.load_latest_model(), on the loader the
\* module created
loader_startup ==
    /\ loader.returned = "None"
    /\ \E files \in FileSystems : loader' = load_latest_model(loader, files)
    /\ UNCHANGED <<store, now, inst, clientCall, stmtVars, reqVars>>

\* POST /predict: 503 unless is_loaded; otherwise the prediction, or 500
\* when it raises
predict_request ==
    /\ loader.returned # "None"
    /\ \E raises \in BOOLEAN :
           loader' = [loader EXCEPT
                         !.request = "predict",
                         !.status = None,
                         !.status_code = IF ~is_loaded(loader) THEN 503
                                         ELSE IF raises THEN 500 ELSE 200]
    /\ UNCHANGED <<store, now, inst, clientCall, stmtVars, reqVars>>

\* GET /health of the service: healthy when is_loaded, else degraded;
\* model_info.get fails on metadata that is not an object
health_check ==
    /\ loader.returned # "None"
    /\ loader' = [loader EXCEPT
                     !.request = "health",
                     !.status = IF loader.metadata = "[metadata]" THEN None
                                ELSE IF is_loaded(loader) THEN "healthy" ELSE "degraded",
                     !.status_code = IF loader.metadata = "[metadata]" THEN 500 ELSE 200]
    /\ UNCHANGED <<store, now, inst, clientCall, stmtVars, reqVars>>

\* the service process is started anew: the module creates a new loader
service_restarts ==
    /\ loader.returned # "None"
    /\ loader' = NewLoader
    /\ UNCHANGED <<store, now, inst, clientCall, stmtVars, reqVars>>

NextLoader ==
    \/ loader_startup
    \/ predict_request
    \/ health_check
    \/ service_restarts

SpecLoader == Init /\ [][NextLoader]_vars

\* C29 as stated: on a new loader load_latest_model returns True exactly
\* when is_loaded is true afterwards; after it returned False the service
\* never reports status healthy and answers /predict with 503
C29_TrueIffLoaded ==
    loader.returned # "None" =>
        /\ loader.returned = "True" <=> is_loaded(loader)
        /\ loader.returned = "False" =>
               /\ loader.request = "health" => loader.status # "healthy"
               /\ loader.request = "predict" => loader.status_code = 503

====
